---- MODULE Spec2Model ----
(***************************************************************************)
(* Model of src/main.py: the Cal.com webhook service that verifies a       *)
(* signed webhook, syncs the booking to Notion, sends immediate WhatsApp   *)
(* notifications and registers three deferred reminder jobs in an          *)
(* APScheduler registry (add_job with replace_existing=True).              *)
(*                                                                         *)
(* Time is counted in hours.  Phones are numbers, NoPhone stands for a     *)
(* None/empty phone; emails, uids and event kinds are strings.             *)
(*                                                                         *)
(* Spec      is the webhook endpoint handling one request after another    *)
(*           (cal_webhook is a coroutine that never yields after reading   *)
(*           the body, so requests do not overlap on the event loop).      *)
(* SpecSched is schedule_messages called from threadpool workers           *)
(*           (/test/schedule-messages is a plain def), interleaved with    *)
(*           each other, with the clock and with the firing of due jobs.   *)
(***************************************************************************)
EXTENDS Integers, Sequences, FiniteSets, Bags, TLC

(***************************************************************************)
(* Bounds of the model                                                     *)
(***************************************************************************)
NumAdmins == 2          \* length of ADMIN_PHONES
NumThreads == 2         \* threadpool workers serving /test/schedule-messages
MaxPhoneLen == 4        \* longest phone input enumerated exhaustively

(***************************************************************************)
(* Program constants                                                       *)
(***************************************************************************)
OneDay == 24            \* timedelta(days=1), in hours
FourHours == 4          \* timedelta(hours=4)
OneHour == 1            \* timedelta(hours=1)
DayHours == 24          \* strftime("%H:%M") wraps at midnight

ADMIN_PHONES == [i \in 1..NumAdmins |-> i]
CAL_SECRET == 1
OtherSecret == CAL_SECRET + 1  \* a secret the service is not configured with

NoPhone == 0            \* None or "" (both falsy in the code)
NoEmail == ""
NoUid == ""
Unparseable == -1       \* a startTime datetime.fromisoformat rejects
NoTime == -2

Times == {39, 42}       \* meeting start instants used by the requests (15:00 and 18:00 of day 1)
TestTimes == {39}       \* meeting_datetime values posted to /test/schedule-messages
Names == {"Ana", "Bia"}
LeadPhone == 101

Labels == <<"1day", "4h", "after">>

AcceptedKindsWithCancelled ==
    {"BOOKING_CREATED", "BOOKING_RESCHEDULED", "BOOKING_REQUESTED", "BOOKING_CANCELLED"}

AcceptedKinds == {"BOOKING_CREATED", "BOOKING_RESCHEDULED", "BOOKING_REQUESTED"}

\* `except ValidationError` names a class the module never imports
ValidationErrorImported == FALSE

(***************************************************************************)
(* Raw request bodies.  Parse(b) is what json.loads and                    *)
(* CalWebhookPayload.model_validate_json make of the raw bytes b.          *)
(***************************************************************************)
NumBodies == 11
RawBodies == 1..NumBodies

Att(name, email) == [name |-> name, email |-> email]

Good(kind, uid, start, atts, ufr, responses) ==
    [json |-> TRUE, valid |-> TRUE, kind |-> kind, uid |-> uid, start |-> start,
     attendees |-> atts, ufr |-> ufr, responses |-> responses]

Parse(b) ==
    CASE b = 1 -> Good("BOOKING_CREATED", "u1", 39, <<Att("Ana", "ana@x")>>, LeadPhone, NoPhone)
      [] b = 2 -> Good("BOOKING_CREATED", "u1", 39, <<Att("Ana", "ana@x")>>, LeadPhone, NoPhone)
      [] b = 3 -> Good("BOOKING_RESCHEDULED", "u1", 42, <<Att("Ana", "ana@x")>>, NoPhone, NoPhone)
      [] b = 4 -> Good("BOOKING_REQUESTED", "u2", 39, <<Att("Bia", "bia@x")>>, NoPhone, LeadPhone)
      [] b = 5 -> Good("BOOKING_CANCELLED", "u1", 39, <<Att("Ana", "ana@x")>>, LeadPhone, NoPhone)
      [] b = 6 -> [Good("", NoUid, NoTime, <<>>, NoPhone, NoPhone) EXCEPT !.json = FALSE, !.valid = FALSE]
      [] b = 7 -> [Good("BOOKING_CREATED", "u1", NoTime, <<Att("Ana", "ana@x")>>, NoPhone, NoPhone)
                     EXCEPT !.valid = FALSE]
      [] b = 8 -> Good("BOOKING_CREATED", "u2", Unparseable, <<Att("Bia", "bia@x")>>, NoPhone, NoPhone)
      [] b = 9 -> Good("BOOKING_CREATED", "u2", 42, <<>>, NoPhone, NoPhone)
      [] b = 10 -> Good("BOOKING_CREATED", "u2", 42, <<Att("Bia", NoEmail)>>, NoPhone, NoPhone)
      [] OTHER -> Good("BOOKING_CREATED", "u2", 42, <<Att("Bia", NoEmail)>>, LeadPhone, NoPhone)

\* json.dumps(json.loads(b)): the canonical re-serialization of a body
Reserialize(b) == CHOOSE c \in RawBodies : Parse(c) = Parse(b) /\ \A d \in RawBodies : Parse(d) = Parse(b) => c <= d

(***************************************************************************)
(* verify_signature                                                        *)
(***************************************************************************)
NoHeader == -1          \* header absent (None)
EmptyHeader == 0        \* header present but ""
NonAsciiHeader == -2    \* header present with a non-ASCII character: compare_digest raises TypeError

\* hex HMAC-SHA256, an injective function of (secret, body)
Digest(secret, body) == (secret - 1) * NumBodies + body

Headers == {NoHeader, EmptyHeader, NonAsciiHeader} \cup {Digest(s, b) : s \in {CAL_SECRET, OtherSecret}, b \in RawBodies}

verify_signature_reserialized(signature_header, raw_body) ==
    IF signature_header \in {NoHeader, EmptyHeader} THEN "missing"
    ELSE IF signature_header = NonAsciiHeader THEN "error"
    ELSE IF Digest(CAL_SECRET, Reserialize(raw_body)) # signature_header THEN "invalid"
    ELSE "ok"

verify_signature_always_invalid(signature_header, raw_body) ==
    IF signature_header \in {NoHeader, EmptyHeader} THEN "invalid"
    ELSE IF signature_header = NonAsciiHeader THEN "error"
    ELSE IF Digest(CAL_SECRET, raw_body) # signature_header THEN "invalid"
    ELSE "ok"

verify_signature_optional(signature_header, raw_body) ==
    IF signature_header \in {NoHeader, EmptyHeader} THEN "ok"
    ELSE IF signature_header = NonAsciiHeader THEN "error"
    ELSE IF Digest(CAL_SECRET, raw_body) # signature_header THEN "invalid"
    ELSE "ok"

verify_signature(signature_header, raw_body) ==
    IF signature_header \in {NoHeader, EmptyHeader} THEN "missing"
    ELSE IF signature_header = NonAsciiHeader THEN "error"
    ELSE IF Digest(CAL_SECRET, raw_body) # signature_header THEN "invalid"
    ELSE "ok"

(***************************************************************************)
(* Phone normalisation.  A phone is a sequence of characters.              *)
(***************************************************************************)
PhoneChars == {"5", "1", "+", "-"}
DigitChars == {"0", "1", "2", "3", "4", "5", "6", "7", "8", "9"}
ExamplePhone == <<"+", "5", "5", " ", "1", "1", " ", "9", "1", "2", "3", "4", "-", "5", "6", "7", "8">>
PhoneInputs == UNION {[1..n -> PhoneChars] : n \in 0..MaxPhoneLen} \cup {ExamplePhone}

IsDigit(c) == c \in DigitChars

\* ''.join(filter(str.isdigit, phone))
OnlyDigits(phone) == SelectSeq(phone, IsDigit)

\* clean_phone.startswith('55')
StartsWith55(clean_phone) == Len(clean_phone) >= 2 /\ clean_phone[1] = "5" /\ clean_phone[2] = "5"

\* notion_find_page, lines 126-129: the number as compared in the records store
toQueryForm(phone) ==
    LET clean_phone == OnlyDigits(phone)
    IN  IF StartsWith55(clean_phone) THEN SubSeq(clean_phone, 3, Len(clean_phone)) ELSE clean_phone

toDispatchFormAlwaysPrefixed(phone) == <<"5", "5">> \o OnlyDigits(phone)

\* send_wa_message, lines 186-189: the number as handed to the gateway
toDispatchForm(phone) ==
    LET clean_phone == OnlyDigits(phone)
    IN  IF ~StartsWith55(clean_phone) THEN <<"5", "5">> \o clean_phone ELSE clean_phone

(***************************************************************************)
(* Outbound sends.  send_wa_message re-raises every failure, so a loop of  *)
(* sends stops at the first failing recipient.  A send log is the sequence *)
(* of attempted sends, in order.                                           *)
(***************************************************************************)
Send(to, msg, failing) == [to |-> to, msg |-> msg, ok |-> to \notin failing]

\* run the sends of `plan` (a sequence of <<phone, message>>) in order until one raises
RECURSIVE SendUntilRaise(_, _)
SendUntilRaise(plan, failing) ==
    IF plan = <<>> THEN <<>>
    ELSE LET s == Send(Head(plan)[1], Head(plan)[2], failing) IN
         IF s.ok THEN <<s>> \o SendUntilRaise(Tail(plan), failing) ELSE <<s>>

\* a send_wa_message that swallows its errors: nothing is ever raised
RaisedNever(log) == FALSE

Raised(log) == \E i \in 1..Len(log) : ~log[i].ok

AdminPlan(msg) == [i \in 1..NumAdmins |-> <<ADMIN_PHONES[i], msg>>]

\* send_wa_bulk(message): one send per admin phone, in list order
send_wa_bulk(message, failing) == SendUntilRaise(AdminPlan(message), failing)

\* send_immediate_booking_notifications: the lead first (if a phone is known), then the admins
send_immediate_booking_notifications(whatsapp, failing) ==
    SendUntilRaise((IF whatsapp # NoPhone THEN <<<<whatsapp, "lead">>>> ELSE <<>>) \o AdminPlan("sales"),
                   failing)

AllPhones == {ADMIN_PHONES[i] : i \in 1..NumAdmins} \cup {LeadPhone}

(***************************************************************************)
(* Records store (Notion).  Every call is logged; its result is an input.  *)
(***************************************************************************)
FindResults == {"err", "none", "page"}
PageErr == -1
PageResults == {PageErr, NoPhone, LeadPhone}   \* GET page: HTTP error, no Telefone, a Telefone

\* one equality predicate of a database query
EmailEquals(email) == [property |-> "Email", email |-> email, phone |-> NoPhone]
PhoneEquals(phone) == [property |-> "Telefone", email |-> NoEmail, phone |-> phone]

\* lines 121-136: the predicates that are available, OR-combined when there are two
\* (the phone stands for its query form, see toQueryForm)
FilterJson(email, phone) ==
    LET filters == (IF email # NoEmail THEN <<EmailEquals(email)>> ELSE <<>>)
                   \o (IF phone # NoPhone THEN <<PhoneEquals(phone)>> ELSE <<>>)
    IN  [combine |-> IF Len(filters) = 2 THEN "or" ELSE "single", preds |-> filters]

NoFilter == [combine |-> "", preds |-> <<>>]

Query(email, phone) == [op |-> "query", filter |-> FilterJson(email, phone)]
GetPage == [op |-> "get", filter |-> NoFilter]
Update == [op |-> "update", filter |-> NoFilter]

\* notion_find_page that posts its query even when it has no predicate
notion_find_page_always_queries(email, phone, result) ==
    [calls |-> <<Query(email, phone)>>, result |-> result]

\* notion_find_page: no call at all when neither email nor phone is given
notion_find_page(email, phone, result) ==
    IF email = NoEmail /\ phone = NoPhone
    THEN [calls |-> <<>>, result |-> "none"]
    ELSE [calls |-> <<Query(email, phone)>>, result |-> result]

Envs == [find1 : FindResults, page : PageResults, find2 : FindResults,
         update : {"ok", "err"}, failing : SUBSET AllPhones]

(***************************************************************************)
(* cal_webhook up to the call of schedule_messages                         *)
(***************************************************************************)
Resp(status, detail, ignored) == [status |-> status, detail |-> detail, ignored |-> ignored]
NoResp == Resp(0, "", "")
Unhandled == Resp(500, "Internal Server Error", "")

Out(auth, resp, notion, sends, whatsapp, go) ==
    [auth |-> auth, resp |-> resp, notion |-> notion, sends |-> sends,
     whatsapp |-> whatsapp, go |-> go]
NoOut == Out("", NoResp, <<>>, <<>>, NoPhone, FALSE)

\* getattr(data.payload, 'responses', None): Booking declares no such field
ResponsesAttr(p) == NoPhone

\* lines 383-414: the phone chain; returns the phone, the store calls made, and whether it raised
ResolveWhatsapp(p, env) ==
    LET email == p.attendees[1].email
        w1 == p.ufr
        w2 == IF w1 = NoPhone THEN ResponsesAttr(p) ELSE w1
    IN  IF ~(w2 = NoPhone /\ email # NoEmail)
        THEN [whatsapp |-> w2, calls |-> <<>>, raised |-> FALSE]
        ELSE LET f == notion_find_page(email, NoPhone, env.find1) IN
             IF f.result = "err" THEN [whatsapp |-> NoPhone, calls |-> f.calls, raised |-> TRUE]
             ELSE IF f.result = "none" THEN [whatsapp |-> NoPhone, calls |-> f.calls, raised |-> FALSE]
             ELSE IF env.page = PageErr
                  THEN [whatsapp |-> NoPhone, calls |-> f.calls \o <<GetPage>>, raised |-> TRUE]
                  ELSE [whatsapp |-> env.page, calls |-> f.calls \o <<GetPage>>, raised |-> FALSE]

\* lines 420-429: find the page by email or phone and write the date back
NotionSync(email, whatsapp, env) ==
    LET f == notion_find_page(email, whatsapp, env.find2) IN
    IF f.result = "err" THEN [calls |-> f.calls, raised |-> TRUE]
    ELSE IF f.result = "none" THEN [calls |-> f.calls, raised |-> FALSE]
    ELSE [calls |-> f.calls \o <<Update>>, raised |-> env.update = "err"]

\* lines 372-437 for an accepted event kind
Accepted(p, env) ==
    IF p.attendees = <<>> THEN Out("ok", Unhandled, <<>>, <<>>, NoPhone, FALSE)
    ELSE IF p.start = Unparseable THEN Out("ok", Unhandled, <<>>, <<>>, NoPhone, FALSE)
    ELSE LET r == ResolveWhatsapp(p, env) IN
         IF r.raised THEN Out("ok", Unhandled, r.calls, <<>>, r.whatsapp, FALSE)
         ELSE LET n == NotionSync(p.attendees[1].email, r.whatsapp, env)
                  calls == r.calls \o n.calls
              IN  IF n.raised THEN Out("ok", Unhandled, calls, <<>>, r.whatsapp, FALSE)
                  ELSE LET log == send_immediate_booking_notifications(r.whatsapp, env.failing) IN
                       IF Raised(log) THEN Out("ok", Unhandled, calls, log, r.whatsapp, FALSE)
                       ELSE Out("ok", NoResp, calls, log, r.whatsapp, TRUE)

\* lines 336-437
Handle(req, env) ==
    LET auth == verify_signature(req.sig, req.body)
        p == Parse(req.body)
    IN  IF auth = "missing" THEN Out(auth, Resp(400, "Missing signature", ""), <<>>, <<>>, NoPhone, FALSE)
        ELSE IF auth = "invalid" THEN Out(auth, Resp(401, "Invalid signature", ""), <<>>, <<>>, NoPhone, FALSE)
        ELSE IF auth = "error" THEN Out(auth, Unhandled, <<>>, <<>>, NoPhone, FALSE)
        ELSE IF ~p.json THEN Out(auth, Unhandled, <<>>, <<>>, NoPhone, FALSE)
        ELSE IF ~p.valid
             THEN IF ValidationErrorImported
                  THEN Out(auth, Resp(400, "Payload invalido", ""), <<>>, <<>>, NoPhone, FALSE)
                  ELSE Out(auth, Unhandled, <<>>, <<>>, NoPhone, FALSE)
        ELSE IF p.kind \notin AcceptedKinds
             THEN Out(auth, Resp(200, "ignored", p.kind), <<>>, <<>>, NoPhone, FALSE)
        ELSE Accepted(p, env)

(***************************************************************************)
(* The scheduler registry and schedule_messages                            *)
(***************************************************************************)
JobId(prefix, ts, label) == <<prefix, ts, label>>

Job(id, run_date, func, phone, template, first_name, meeting_str) ==
    [id |-> id, run_date |-> run_date, func |-> func,
     args |-> [phone |-> phone, template |-> template, first_name |-> first_name,
               meeting_str |-> meeting_str]]

\* DateTrigger(run_date=...) of the three add_job calls of schedule_messages
RunDateAllBefore(label, meeting_dt) ==
    CASE label = "1day" -> meeting_dt - OneDay
      [] label = "4h" -> meeting_dt - FourHours
      [] OTHER -> meeting_dt - OneHour

RunDate(label, meeting_dt) ==
    CASE label = "1day" -> meeting_dt - OneDay
      [] label = "4h" -> meeting_dt - FourHours
      [] OTHER -> meeting_dt + OneHour

\* the k-th add_job call of schedule_messages(first_name, meeting_dt)
ScheduleJob(k, first_name, meeting_dt) ==
    Job(JobId("whatsapp", meeting_dt, Labels[k]), RunDate(Labels[k], meeting_dt),
        "send_wa_bulk", NoPhone, Labels[k], first_name, meeting_dt % DayHours)

\* scheduler.add_job(...) without replace_existing: a second entry under the same id
AddJobKeepExisting(registry, job) == registry (+) SetToBag({job})

\* scheduler.add_job(..., id=job.id, replace_existing=True)
AddJob(registry, job) ==
    LET kept == {j \in BagToSet(registry) : j.id # job.id}
    IN  [j \in kept |-> registry[j]] (+) SetToBag({job})

NoJob == Job(JobId("", NoTime, ""), NoTime, "", NoPhone, "", "", NoTime)

\* the scheduler's default misfire_grace_time (one second): below the clock's resolution
MisfireGrace == 0

\* the executor skips a run that is later than the grace period ("Run time of job was missed")
Misfired(job, t) == t - job.run_date > MisfireGrace

Pending(registry, id) == {j \in BagToSet(registry) : j.id = id}
Copies(registry, id) == BagCardinality([j \in Pending(registry, id) |-> registry[j]])

\* the `which` values a caller of /test/send-lead-message may pass; "1day" is not accepted
Whichs == {"1d", "4h", "after", "1day"}

\* a run date chosen by `which` that takes the 4h offset for "1d"
LeadWhenOneDayAsFourHours(which, dt) ==
    CASE which = "1d" -> dt - FourHours
      [] which = "4h" -> dt - FourHours
      [] OTHER -> dt + OneHour

\* lines 556-567: the message and the run date chosen by `which`
LeadTemplate(which) == IF which = "1d" THEN "1day" ELSE which
LeadWhen(which, dt) ==
    CASE which = "1d" -> dt - OneDay
      [] which = "4h" -> dt - FourHours
      [] OTHER -> dt + OneHour

\* the k-th add_job call of test_schedule_lead_messages
LeadScheduleJob(k, phone, first_name, dt) ==
    Job(JobId("lead_whatsapp", dt, Labels[k]), RunDate(Labels[k], dt),
        "send_wa_message", phone, Labels[k], first_name, dt % DayHours)

\* the add_job call of test_send_lead_message
LeadSendJob(which, phone, first_name, dt) ==
    Job(JobId("lead_whatsapp", dt, which), LeadWhen(which, dt),
        "send_wa_message", phone, LeadTemplate(which), first_name, dt % DayHours)

JobIds == {JobId("whatsapp", t, Labels[k]) : t \in Times, k \in 1..3}
          \cup {JobId("lead_whatsapp", t, l) : t \in TestTimes, l \in Whichs}
\* the instants the clock is observed at: the start and every run date of a test request
Instants == {0} \cup {RunDate(Labels[k], t) : t \in TestTimes, k \in 1..3}

(***************************************************************************)
(* State                                                                   *)
(***************************************************************************)
VARIABLES
    jobs,       \* the scheduler's registry: a bag of jobs
    owner,      \* history: for each job id, the booking uid whose webhook registered it last
    now,        \* wall clock, in hours
    web,        \* the webhook request being handled on the event loop
    thr,        \* the threadpool workers serving /test/schedule-messages
    lead,       \* the worker serving the lead test endpoints
    resolved,   \* history: for each job id, the lead phone resolved by the webhook that registered it
    lastFire,   \* the job the scheduler took from the registry in the step just made, if it
                \* made one, and what its run did
    norm        \* a phone input and its two normal forms

vars == <<jobs, owner, now, web, thr, resolved, lead, lastFire, norm>>

Threads == 1..NumThreads

NoReq == [sig |-> NoHeader, body |-> 0]
WebIdle == [pc |-> "idle", req |-> NoReq, out |-> NoOut, k |-> 0, reg |-> <<>>, resp |-> NoResp]
ThrIdle == [pc |-> "idle", first_name |-> "", dt |-> NoTime, k |-> 0, reg |-> <<>>, success |-> FALSE]

LeadIdle == [pc |-> "idle", ep |-> "", first_name |-> "", dt |-> NoTime, which |-> "", phone |-> NoPhone,
             k |-> 0, calls |-> <<>>, sends |-> <<>>, success |-> FALSE, error |-> ""]

NoFire == [job |-> NoJob, at |-> 0, ran |-> FALSE, whatsapp |-> NoPhone, sends |-> <<>>]

NoNorm == [pc |-> "none", input |-> <<>>, query |-> <<>>, dispatch |-> <<>>]

\* the service as it starts: empty registry, no request in progress
Start ==
    /\ jobs = EmptyBag
    /\ owner = [id \in JobIds |-> NoUid]
    /\ now = 0
    /\ web = WebIdle
    /\ thr = [t \in Threads |-> ThrIdle]
    /\ resolved = [id \in JobIds |-> NoPhone]
    /\ lead = LeadIdle
    /\ lastFire = NoFire

Init ==
    /\ Start
    /\ norm = NoNorm

(***************************************************************************)
(* POST /webhook/cal                                                       *)
(***************************************************************************)
\* the request arrives and the handler runs up to the call of schedule_messages
WebhookReceive(sig, body, env) ==
    /\ web.pc = "idle"
    /\ LET req == [sig |-> sig, body |-> body]
           out == Handle(req, env)
       IN  web' = [WebIdle EXCEPT !.pc = IF out.go THEN "schedule" ELSE "done",
                                  !.req = req, !.out = out, !.k = IF out.go THEN 1 ELSE 0,
                                  !.resp = out.resp]
    /\ lastFire' = NoFire
    /\ UNCHANGED <<jobs, owner, now, thr, resolved, lead, norm>>

\* one add_job call of schedule_messages(attendee.name, start_dt); the last one returns success
WebhookAddJob ==
    /\ web.pc = "schedule"
    /\ LET p == Parse(web.req.body)
           job == ScheduleJob(web.k, p.attendees[1].name, p.start)
       IN  /\ jobs' = AddJob(jobs, job)
           /\ owner' = [owner EXCEPT ![job.id] = p.uid]
           /\ resolved' = [resolved EXCEPT ![job.id] = web.out.whatsapp]
           /\ web' = [web EXCEPT !.reg = Append(@, job),
                                 !.k = IF web.k = 3 THEN 0 ELSE web.k + 1,
                                 !.pc = IF web.k = 3 THEN "done" ELSE "schedule",
                                 !.resp = IF web.k = 3 THEN Resp(200, "success", "") ELSE @]
    /\ lastFire' = NoFire
    /\ UNCHANGED <<now, thr, lead, norm>>

\* the response has been sent
WebhookReturn ==
    /\ web.pc = "done"
    /\ web' = WebIdle
    /\ lastFire' = NoFire
    /\ UNCHANGED <<jobs, owner, now, thr, resolved, lead, norm>>

(***************************************************************************)
(* POST /test/schedule-messages (a plain def: runs on a threadpool worker) *)
(***************************************************************************)
TestReceive(t, first_name, meeting_datetime) ==
    /\ thr[t].pc = "idle"
    /\ thr' = [thr EXCEPT ![t] =
                 IF meeting_datetime = Unparseable
                 THEN [ThrIdle EXCEPT !.pc = "done", !.first_name = first_name,
                                      !.dt = meeting_datetime, !.success = FALSE]
                 ELSE [ThrIdle EXCEPT !.pc = "schedule", !.first_name = first_name,
                                      !.dt = meeting_datetime, !.k = 1]]
    /\ lastFire' = NoFire
    /\ UNCHANGED <<jobs, owner, now, web, resolved, lead, norm>>

TestAddJob(t) ==
    /\ thr[t].pc = "schedule"
    /\ LET job == ScheduleJob(thr[t].k, thr[t].first_name, thr[t].dt)
       IN  /\ jobs' = AddJob(jobs, job)
           /\ owner' = [owner EXCEPT ![job.id] = NoUid]
           /\ resolved' = [resolved EXCEPT ![job.id] = NoPhone]
           /\ thr' = [thr EXCEPT ![t].reg = Append(@, job),
                                 ![t].k = IF thr[t].k = 3 THEN 0 ELSE thr[t].k + 1,
                                 ![t].pc = IF thr[t].k = 3 THEN "done" ELSE "schedule",
                                 ![t].success = (thr[t].k = 3)]
    /\ lastFire' = NoFire
    /\ UNCHANGED <<now, web, lead, norm>>

TestReturn(t) ==
    /\ thr[t].pc = "done"
    /\ thr' = [thr EXCEPT ![t] = ThrIdle]
    /\ lastFire' = NoFire
    /\ UNCHANGED <<jobs, owner, now, web, resolved, lead, norm>>

(***************************************************************************)
(* POST /test/schedule-lead-messages and POST /test/send-lead-message.     *)
(* One worker serves them, one request after the other.                    *)
(***************************************************************************)
\* lines 479-499 and 535-554: parse the time, find the lead's page by email, read its phone
LeadLookup(ep, first_name, meeting_datetime, which, find, page) ==
    LET f == notion_find_page("lead@x", NoPhone, find)
        r == [LeadIdle EXCEPT !.ep = ep, !.first_name = first_name, !.dt = meeting_datetime,
                              !.which = which, !.pc = "done"]
    IN  IF meeting_datetime = Unparseable THEN [r EXCEPT !.error = "exception"]
        ELSE IF f.result = "err" THEN [r EXCEPT !.calls = f.calls, !.error = "exception"]
        ELSE IF f.result = "none" THEN [r EXCEPT !.calls = f.calls, !.error = "lead not found"]
        ELSE IF page = PageErr THEN [r EXCEPT !.calls = f.calls \o <<GetPage>>, !.error = "exception"]
        ELSE IF page = NoPhone THEN [r EXCEPT !.calls = f.calls \o <<GetPage>>, !.error = "phone not found"]
        ELSE [r EXCEPT !.calls = f.calls \o <<GetPage>>, !.phone = page, !.pc = "found"]

\* test_schedule_lead_messages up to its first add_job
LeadScheduleReceive(first_name, meeting_datetime, find, page) ==
    /\ lead.pc = "idle"
    /\ LET r == LeadLookup("schedule", first_name, meeting_datetime, "", find, page)
       IN  lead' = IF r.pc = "found" THEN [r EXCEPT !.pc = "schedule", !.k = 1] ELSE r
    /\ lastFire' = NoFire
    /\ UNCHANGED <<jobs, owner, now, web, thr, resolved, norm>>

\* one of its three add_job calls
LeadScheduleAddJob ==
    /\ lead.pc = "schedule" /\ lead.ep = "schedule"
    /\ jobs' = AddJob(jobs, LeadScheduleJob(lead.k, lead.phone, lead.first_name, lead.dt))
    /\ lead' = [lead EXCEPT !.k = IF lead.k = 3 THEN 0 ELSE lead.k + 1,
                            !.pc = IF lead.k = 3 THEN "done" ELSE "schedule",
                            !.success = (lead.k = 3)]
    /\ lastFire' = NoFire
    /\ UNCHANGED <<owner, now, web, thr, resolved, norm>>

\* test_send_lead_message up to its add_job; with send_now the message is sent here
LeadSendReceive(first_name, meeting_datetime, which, send_now, find, page, failing) ==
    /\ lead.pc = "idle"
    /\ LET r == LeadLookup("send", first_name, meeting_datetime, which, find, page)
       IN  lead' = IF r.pc # "found" THEN r
                   ELSE IF which \notin {"1d", "4h", "after"}
                        THEN [r EXCEPT !.pc = "done", !.error = "invalid which"]
                   ELSE IF send_now
                        THEN LET log == <<Send(r.phone, LeadTemplate(which), failing)>> IN
                             [r EXCEPT !.pc = "done", !.sends = log, !.success = ~Raised(log),
                                       !.error = IF Raised(log) THEN "exception" ELSE ""]
                   ELSE [r EXCEPT !.pc = "schedule", !.k = 1]
    /\ lastFire' = NoFire
    /\ UNCHANGED <<jobs, owner, now, web, thr, resolved, norm>>

\* its add_job call
LeadSendAddJob ==
    /\ lead.pc = "schedule" /\ lead.ep = "send"
    /\ jobs' = AddJob(jobs, LeadSendJob(lead.which, lead.phone, lead.first_name, lead.dt))
    /\ lead' = [lead EXCEPT !.k = 0, !.pc = "done", !.success = TRUE]
    /\ lastFire' = NoFire
    /\ UNCHANGED <<owner, now, web, thr, resolved, norm>>

LeadReturn ==
    /\ lead.pc = "done"
    /\ lead' = LeadIdle
    /\ lastFire' = NoFire
    /\ UNCHANGED <<jobs, owner, now, web, thr, resolved, norm>>

LeadEndpoints ==
    \/ \E n \in Names, d \in TestTimes \cup {Unparseable}, find \in FindResults, page \in PageResults :
          LeadScheduleReceive(n, d, find, page)
    \/ LeadScheduleAddJob
    \/ \E n \in Names, d \in TestTimes \cup {Unparseable}, which \in Whichs, send_now \in BOOLEAN,
          find \in FindResults, page \in PageResults, failing \in SUBSET {LeadPhone} :
          LeadSendReceive(n, d, which, send_now, find, page, failing)
    \/ LeadSendAddJob
    \/ LeadReturn

(***************************************************************************)
(* The scheduler, on the event loop, takes a due job from the registry (a  *)
(* date trigger has no next run) and hands it to the executor, which calls *)
(* the job's function once unless the run time was missed.                 *)
(***************************************************************************)
\* the call func(*args) of a job
Dispatch(job, failing) ==
    IF job.func = "send_wa_message"
    THEN <<Send(job.args.phone, job.args.template, failing)>>
    ELSE send_wa_bulk(job.args.template, failing)

\* the phones whose send may fail when the job runs
Recipients(job) ==
    IF job.func = "send_wa_message" THEN {job.args.phone} ELSE {ADMIN_PHONES[i] : i \in 1..NumAdmins}

Fire(job, failing) ==
    /\ job \in BagToSet(jobs)
    /\ job.run_date <= now
    /\ web.pc # "schedule"
    /\ jobs' = jobs (-) SetToBag({job})
    /\ owner' = [owner EXCEPT ![job.id] = IF Copies(jobs', job.id) = 0 THEN NoUid ELSE @]
    /\ resolved' = [resolved EXCEPT ![job.id] = IF Copies(jobs', job.id) = 0 THEN NoPhone ELSE @]
    /\ lastFire' = [job |-> job, at |-> now, ran |-> ~Misfired(job, now),
                    whatsapp |-> resolved[job.id],
                    sends |-> IF Misfired(job, now) THEN <<>> ELSE Dispatch(job, failing)]
    /\ UNCHANGED <<now, web, thr, lead, norm>>

\* time passes; the scheduler wakes up at every run date, so no pending job is passed over
Tick ==
    /\ \E t \in Instants :
         /\ t > now
         /\ \A job \in BagToSet(jobs) : job.run_date >= t
         /\ now' = t
    /\ lastFire' = NoFire
    /\ UNCHANGED <<jobs, owner, web, thr, resolved, lead, norm>>

Fires == \E job \in BagToSet(jobs) : \E failing \in SUBSET Recipients(job) : Fire(job, failing)

\* the outcomes of the external calls matter only to a request that gets as far as making them
EnvsFor(sig, body) ==
    IF /\ verify_signature(sig, body) = "ok"
       /\ Parse(body).json /\ Parse(body).valid
       /\ Parse(body).kind \in AcceptedKinds
    THEN Envs
    ELSE {CHOOSE e \in Envs : e.failing = {} /\ e.update = "ok" /\ e.find1 = "none"
                                /\ e.find2 = "none" /\ e.page = NoPhone}

Webhook ==
    \/ \E sig \in Headers, body \in RawBodies : \E env \in EnvsFor(sig, body) : WebhookReceive(sig, body, env)
    \/ WebhookAddJob
    \/ WebhookReturn

TestSchedule ==
    \/ \E t \in Threads, n \in Names, d \in TestTimes \cup {Unparseable} : TestReceive(t, n, d)
    \/ \E t \in Threads : TestAddJob(t)
    \/ \E t \in Threads : TestReturn(t)

\* the webhook service handling one request after another
Next == Webhook

Spec == Init /\ [][Next]_vars

\* the scheduling primitive under concurrent callers
NextSched == TestSchedule \/ Fires \/ Tick

SpecSched == Init /\ [][NextSched]_vars

(***************************************************************************)
(* Bookings arriving while the clock runs and the scheduler fires          *)
(***************************************************************************)
\* correctly signed bookings of two attendees for the same instant
FireBodies == {1, 4}

\* the external services answer and no send fails
QuietEnvs == {e \in Envs : e.failing = {} /\ e.update = "ok" /\ e.find1 # "err" /\ e.find2 # "err"
                            /\ e.page # PageErr}

WebhookQuiet ==
    \/ \E body \in FireBodies, env \in QuietEnvs : WebhookReceive(Digest(CAL_SECRET, body), body, env)
    \/ WebhookAddJob
    \/ WebhookReturn

NextFire == WebhookQuiet \/ Fires \/ Tick

SpecFire == Init /\ [][NextFire]_vars

\* the lead test endpoints while the clock runs and the scheduler fires
NextLead == LeadEndpoints \/ Fires \/ Tick

SpecLead == Init /\ [][NextLead]_vars

(***************************************************************************)
(* Every entry point that registers jobs, side by side: the webhook, one   *)
(* /test/schedule-messages worker and the lead endpoints, with the store   *)
(* answering and the lead's phone found, before the first job is due.      *)
(***************************************************************************)
TestOne ==
    \/ \E n \in Names : TestReceive(1, n, CHOOSE d \in TestTimes : TRUE)
    \/ TestAddJob(1)
    \/ TestReturn(1)

LeadQuiet ==
    \/ \E d \in TestTimes : LeadScheduleReceive("Ana", d, "page", LeadPhone)
    \/ LeadScheduleAddJob
    \/ \E d \in TestTimes, which \in Whichs : LeadSendReceive("Ana", d, which, FALSE, "page", LeadPhone, {})
    \/ LeadSendAddJob
    \/ LeadReturn

NextAll == WebhookQuiet \/ TestOne \/ LeadQuiet

SpecAll == Init /\ [][NextAll]_vars

(***************************************************************************)
(* The two phone normalisations applied to one input                       *)
(***************************************************************************)
InitPhone ==
    /\ Start
    /\ \E phone \in PhoneInputs : norm = [NoNorm EXCEPT !.pc = "in", !.input = phone]

Normalize ==
    /\ norm.pc = "in"
    /\ norm' = [norm EXCEPT !.pc = "out", !.query = toQueryForm(norm.input),
                            !.dispatch = toDispatchForm(norm.input)]
    /\ lastFire' = NoFire
    /\ UNCHANGED <<jobs, owner, now, web, thr, resolved, lead>>

NextPhone == Normalize

SpecPhone == InitPhone /\ [][NextPhone]_vars

TypeOK ==
    /\ now \in Instants
    /\ web.pc \in {"idle", "schedule", "done"}
    /\ \A t \in Threads : thr[t].pc \in {"idle", "schedule", "done"}

(***************************************************************************)
(* Properties                                                              *)
(***************************************************************************)
Uids == {"u1", "u2"}
Success == Resp(200, "success", "")

\* the request is not signed with the configured secret over its own raw bytes
BadSignature(req) == req.sig \in {NoHeader, EmptyHeader} \/ req.sig # Digest(CAL_SECRET, req.body)
Missing(req) == req.sig \in {NoHeader, EmptyHeader}

\* the handler made no records-store call, sent nothing and registered nothing
NoEffects(w) == w.out.notion = <<>> /\ w.out.sends = <<>> /\ w.reg = <<>>

\* C1: for a given meeting (booking uid) and offset label at most one pending job exists at
\* any time, so booking a meeting and then rescheduling it to another start time leaves
\* three pending jobs for that meeting, not six.
C1_OneJobPerMeetingAndLabel ==
    \A u \in Uids, k \in 1..3 :
        Cardinality({id \in JobIds : id[3] = Labels[k] /\ owner[id] = u /\ Copies(jobs, id) > 0}) <= 1

\* C2: however many scheduleSet calls ran, one after another or interleaved, for the same
\* meeting time, no job id is pending twice, and once a call has completed (and before the
\* first of its jobs is due) exactly three jobs are pending for that time, one per label.
C2_SameTimeThreeJobs ==
    /\ \A id \in JobIds : Copies(jobs, id) <= 1
    /\ \A t \in Threads :
         (thr[t].pc = "done" /\ thr[t].success /\ now < thr[t].dt - 24) =>
            /\ \A k \in 1..3 : Copies(jobs, JobId("whatsapp", thr[t].dt, Labels[k])) = 1
            /\ BagCardinality([j \in {x \in BagToSet(jobs) : x.id[2] = thr[t].dt} |-> jobs[j]]) = 3

\* two calls for the same meeting time have both completed and three jobs are pending
C2_Witness ==
    \E t1, t2 \in Threads :
        /\ t1 # t2
        /\ thr[t1].pc = "done" /\ thr[t1].success
        /\ thr[t2].pc = "done" /\ thr[t2].success
        /\ thr[t1].dt = thr[t2].dt
        /\ thr[t1].first_name # thr[t2].first_name
        /\ now < thr[t1].dt - 24
        /\ BagCardinality(jobs) = 3

\* C3: one scheduleSet call for meeting time T registers exactly three jobs, with fire
\* times T - 24h, T - 4h and T + 1h (15:00 gives 15:00 the day before, 11:00 and 16:00).
C3_FireTimes ==
    (web.pc = "done" /\ web.resp = Success) =>
        LET T == Parse(web.req.body).start IN
        /\ [i \in 1..Len(web.reg) |-> web.reg[i].run_date] = <<T - 24, T - 4, T + 1>>
        /\ \A i \in 1..Len(web.reg) : web.reg[i] \in BagToSet(jobs)
        /\ T = 39 => {j.run_date : j \in {x \in BagToSet(jobs) : x.id[2] = T}} = {15, 35, 40}

C3_Witness ==
    /\ web.pc = "done" /\ web.resp = Success
    /\ Parse(web.req.body).start = 39
    /\ Len(web.reg) = 3
    /\ web.reg[3].run_date = 40

\* C4: a request whose signature header is missing or does not match is rejected before any
\* other processing: no records-store call, no send, no job registration, registry unchanged.
C4_RejectedBeforeProcessing ==
    [][(web.pc = "idle" /\ web'.pc # "idle" /\ BadSignature(web'.req)) =>
          /\ web'.pc = "done"
          /\ web'.resp.status >= 400
          /\ NoEffects(web')
          /\ jobs' = jobs]_vars

\* a request that would have been processed had its signature been right
C4_Witness ==
    /\ web.pc = "done"
    /\ BadSignature(web.req)
    /\ Parse(web.req.body).valid
    /\ Parse(web.req.body).kind \in {"BOOKING_CREATED", "BOOKING_RESCHEDULED", "BOOKING_REQUESTED"}
    /\ Parse(web.req.body).start \in Times
    /\ Parse(web.req.body).attendees # <<>>

\* C5 as stated: every signature failure, absent header or wrong digest, is answered 401.
C5_EverySignatureFailureIs401 ==
    (web.pc # "idle" /\ BadSignature(web.req)) => web.resp.status = 401

\* C5 amended: a header that is present and does not equal the digest is answered 401
\* "Invalid signature" (500 when it holds a non-ASCII character, which the comparison
\* refuses); an absent or empty header is answered 400 "Missing signature".
C5_SignatureFailureStatus ==
    (web.pc # "idle" /\ BadSignature(web.req)) =>
        /\ web.pc = "done"
        /\ Missing(web.req) => web.resp = Resp(400, "Missing signature", "")
        /\ (~Missing(web.req) /\ web.req.sig # NonAsciiHeader) => web.resp = Resp(401, "Invalid signature", "")
        /\ web.req.sig = NonAsciiHeader => web.resp.status = 500

C5_Witness ==
    /\ web.pc = "done"
    /\ web.req.sig = NoHeader
    /\ web.resp.status = 400

\* C6: verify succeeds iff the header is present and equals the digest of the exact raw body
\* under the configured secret; a header valid for other bytes, even bytes that parse to the
\* same payload, fails.
C6_VerifyIffDigestOfRawBody ==
    web.pc # "idle" =>
        /\ (web.out.auth = "ok") <=>
              (web.req.sig \notin {NoHeader, EmptyHeader} /\ web.req.sig = Digest(CAL_SECRET, web.req.body))
        /\ \A b \in RawBodies :
              (b # web.req.body /\ web.req.sig = Digest(CAL_SECRET, b)) => web.out.auth # "ok"

\* the header signs the re-serialized form of the body, not the bytes received: rejected
C6_Witness ==
    /\ web.pc # "idle"
    /\ Reserialize(web.req.body) # web.req.body
    /\ web.req.sig = Digest(CAL_SECRET, Reserialize(web.req.body))
    /\ web.out.auth = "invalid"

\* C7: a correctly signed, well-formed webhook of a kind outside the accepted set is answered
\* ignored(kind) and causes no store call, no send and no job; the registry is unchanged.
C7_IgnoredKindNoEffects ==
    [][(/\ web.pc = "idle" /\ web'.pc # "idle"
        /\ ~BadSignature(web'.req)
        /\ Parse(web'.req.body).json /\ Parse(web'.req.body).valid
        /\ Parse(web'.req.body).kind \notin {"BOOKING_CREATED", "BOOKING_RESCHEDULED", "BOOKING_REQUESTED"}) =>
          /\ web'.pc = "done"
          /\ web'.resp = Resp(200, "ignored", Parse(web'.req.body).kind)
          /\ NoEffects(web')
          /\ jobs' = jobs]_vars

C7_Witness ==
    /\ web.pc = "done"
    /\ web.resp = Resp(200, "ignored", "BOOKING_CANCELLED")
    /\ BagCardinality(jobs) > 0

\* the payload of a request is malformed
Malformed(p) == ~p.json \/ ~p.valid \/ p.start = Unparseable

\* C8: a correctly signed webhook with a malformed payload (not JSON, a required field
\* missing, start time unparseable) is answered 400 and causes no store call, send or job.
C8_MalformedIs400 ==
    (web.pc # "idle" /\ ~BadSignature(web.req) /\ Malformed(Parse(web.req.body))
       /\ (Parse(web.req.body).json /\ Parse(web.req.body).valid
             => Parse(web.req.body).kind \in {"BOOKING_CREATED", "BOOKING_RESCHEDULED", "BOOKING_REQUESTED"})) =>
        /\ web.resp.status = 400
        /\ NoEffects(web)

\* the sends the immediate booking notification is to make: the lead (if known) and every admin
ImmediateRecipients(whatsapp) ==
    (IF whatsapp # NoPhone THEN {whatsapp} ELSE {}) \cup {ADMIN_PHONES[i] : i \in 1..NumAdmins}

\* C9: each recipient send of one dispatch is independent: once the immediate notification
\* has started, every recipient is sent to, whatever happened to the other sends.
C9_SendsIndependent ==
    (web.pc # "idle" /\ web.out.sends # <<>>) =>
        {web.out.sends[i].to : i \in 1..Len(web.out.sends)} = ImmediateRecipients(web.out.whatsapp)

\* C10: a failed send of the immediate dispatch does not abort the webhook: the request
\* completes with success and the three deferred jobs are registered.
C10_SendFailureDoesNotAbort ==
    (web.pc = "done" /\ Raised(web.out.sends)) => (web.resp = Success /\ Len(web.reg) = 3)

\* C11: the query form is the digits without a leading 55, the dispatch form is the digits
\* with a leading 55, and dispatch form = "55" followed by the query form.
C11_PhoneForms ==
    norm.pc = "out" =>
        LET d == SelectSeq(norm.input, LAMBDA c : c \in DigitChars)
            has55 == Len(d) >= 2 /\ SubSeq(d, 1, 2) = <<"5", "5">>
        IN  /\ norm.query = IF has55 THEN SubSeq(d, 3, Len(d)) ELSE d
            /\ norm.dispatch = IF has55 THEN d ELSE <<"5", "5">> \o d
            /\ norm.dispatch = <<"5", "5">> \o norm.query
            /\ norm.input = ExamplePhone =>
                  /\ norm.query = <<"1", "1", "9", "1", "2", "3", "4", "5", "6", "7", "8">>
                  /\ norm.dispatch = <<"5", "5", "1", "1", "9", "1", "2", "3", "4", "5", "6", "7", "8">>

\* an input that already carries the country prefix, normalised
C11_Witness ==
    /\ norm.pc = "out"
    /\ Len(norm.input) > Len(norm.dispatch)
    /\ Len(norm.query) > 0
    /\ norm.dispatch = <<"5", "5">> \o norm.query
    /\ norm.input # ExamplePhone

\* the store queries among the calls of a request, in order
Queries(calls) == SelectSeq(calls, LAMBDA c : c.op = "query")

\* C12: with neither an email nor a phone no records-store call is issued; with exactly one of
\* them the store is queried with that single predicate, with both with their OR-combination.
C12_QueryByWhatIsKnown ==
    (web.pc # "idle" /\ web.out.sends # <<>>) =>
        LET email == Parse(web.req.body).attendees[1].email
            phone == web.out.whatsapp
            qs == Queries(web.out.notion)
            last == qs[Len(qs)].filter
        IN  /\ (email = NoEmail /\ phone = NoPhone) => web.out.notion = <<>>
            /\ (email # NoEmail /\ phone = NoPhone) =>
                  last = [combine |-> "single", preds |-> <<EmailEquals(email)>>]
            /\ (email = NoEmail /\ phone # NoPhone) =>
                  (Len(qs) = 1 /\ last = [combine |-> "single", preds |-> <<PhoneEquals(phone)>>])
            /\ (email # NoEmail /\ phone # NoPhone) =>
                  last = [combine |-> "or", preds |-> <<EmailEquals(email), PhoneEquals(phone)>>]

\* a booking without email and without phone went through and the store was never called
C12_Witness ==
    /\ web.pc = "done" /\ web.resp = Success
    /\ Parse(web.req.body).attendees[1].email = NoEmail
    /\ web.out.whatsapp = NoPhone
    /\ web.out.notion = <<>>

\* C13: a job whose run date is already past when it is registered is accepted and its
\* dispatch is executed, not skipped: whenever the scheduler takes a late job from the
\* registry, the job's function has run.
C13_PastJobIsExecuted ==
    (lastFire.job # NoJob /\ lastFire.at > lastFire.job.run_date) => lastFire.ran

\* C14: every pending job that is not replaced fires, exactly once, and is gone afterwards:
\* a job leaves the registry, without another job taking its id, only by a step of the
\* scheduler that calls the job's function, and it is not pending after that step.
C14_PendingJobFiresOnce ==
    [][\A job \in BagToSet(jobs) :
          (Copies(jobs', job.id) = 0) =>
              /\ lastFire'.job = job
              /\ lastFire'.ran
              /\ lastFire'.sends # <<>>]_vars

\* C15: concurrent scheduleSet calls for the same meeting time replace the three entries as
\* a set: once no call is in the middle of its registrations, the pending jobs of one meeting
\* time all carry the payload (first name) of the same call, never a mix.
C15_NoMixedPayload ==
    (\A t \in Threads : thr[t].pc # "schedule") =>
        \A j1, j2 \in BagToSet(jobs) :
            j1.id[2] = j2.id[2] => j1.args.first_name = j2.args.first_name

\* C16: when a job registered by the webhook fires (and no send fails), every administrative
\* phone is sent to and, if a lead phone was resolved for the booking, the lead's phone too.
C16_FiredJobReachesAdminsAndLead ==
    (lastFire.ran /\ ~Raised(lastFire.sends)) =>
        /\ \A i \in 1..NumAdmins : \E n \in 1..Len(lastFire.sends) : lastFire.sends[n].to = ADMIN_PHONES[i]
        /\ lastFire.whatsapp # NoPhone =>
              \E n \in 1..Len(lastFire.sends) : lastFire.sends[n].to = lastFire.whatsapp

\* the request was an accepted booking and the phone chain ended without a phone and without
\* raising (no phone in the payload; no page for the email, or a page without a phone)
ResolutionMiss(w) ==
    LET p == Parse(w.req.body) IN
    /\ w.out.auth = "ok" /\ p.json /\ p.valid /\ p.kind \in AcceptedKinds
    /\ p.attendees # <<>> /\ p.start # Unparseable
    /\ w.out.whatsapp = NoPhone
    /\ p.attendees[1].email # NoEmail =>
          (Len(w.out.notion) >= 2 /\ w.out.notion[Len(w.out.notion)].op # "get")

\* C17: an accepted webhook for which no phone is found is not an error: the immediate
\* notification goes to every administrative phone and to nobody else, the three deferred
\* jobs are registered, and the request succeeds.
C17_ResolutionMissSucceeds ==
    (web.pc = "done" /\ ResolutionMiss(web)) =>
        /\ web.resp = Success
        /\ Len(web.reg) = 3
        /\ web.out.sends = [i \in 1..NumAdmins |-> [to |-> ADMIN_PHONES[i], msg |-> "sales", ok |-> TRUE]]

\* C18: the phone chain stops at the first source that yields a phone: when the payload
\* carries a phone in its custom-field block or in its responses block, the email-only
\* lookup in the records store and the page fetch are not performed (the only store query of
\* the request is the one of the sync), and the phone found is the payload's.
C18_LookupOnlyWhenPayloadHasNoPhone ==
    LET p == Parse(web.req.body) IN
    (/\ web.pc # "idle" /\ web.out.auth = "ok" /\ p.json /\ p.valid /\ p.kind \in AcceptedKinds
     /\ p.attendees # <<>> /\ p.start # Unparseable
     /\ (p.ufr # NoPhone \/ p.responses # NoPhone)) =>
        /\ \A n \in 1..Len(web.out.notion) : web.out.notion[n].op # "get"
        /\ Len(Queries(web.out.notion)) <= 1
        /\ web.out.whatsapp = IF p.ufr # NoPhone THEN p.ufr ELSE p.responses

\* C20: reminders of distinct meetings do not clobber each other: no step takes a pending
\* job of one booking (uid) out of the registry by registering a job of another booking in
\* its place, so two bookings starting at the same instant each keep their three jobs.
C20_BookingsKeepTheirJobs ==
    [][\A id \in JobIds :
          (owner[id] # NoUid /\ owner'[id] # NoUid) => owner'[id] = owner[id]]_vars

\* C19: across any sequence of calls of the two lead test endpoints for one meeting time, at
\* most one lead job is pending per offset (that is, per fire time), a later registration
\* replacing the earlier one.
C19_OneLeadJobPerOffset ==
    \A t \in TestTimes, k \in 1..3 :
        Cardinality({job \in BagToSet(jobs) : /\ job.id[1] = "lead_whatsapp"
                                              /\ job.id[2] = t
                                              /\ job.run_date = RunDate(Labels[k], t)}) <= 1

\* a send of the request failed
SendFailed(w) == \E n \in 1..Len(w.out.sends) : ~w.out.sends[n].ok

\* C21: the webhook registers its jobs only as its last step, after the store sync and every
\* immediate send succeeded: a job is registered only by a request none of whose sends failed
\* and that has not been answered with an error; the success response is given in the step
\* that leaves the three jobs of the request's start time in the registry; and a request
\* that ends in an error has registered nothing and left the registry as it was.
C21_JobsRegisteredLast ==
    [][/\ Len(web'.reg) > Len(web.reg) =>
             /\ web.out.go /\ ~SendFailed(web) /\ web.out.sends # <<>>
             /\ web.resp = NoResp
       /\ (web'.resp = Success /\ web.resp # Success) =>
             \A k \in 1..3 :
                 /\ Copies(jobs', JobId("whatsapp", Parse(web'.req.body).start, Labels[k])) = 1
                 /\ web'.reg[k] \in BagToSet(jobs')
       /\ (web'.pc = "done" /\ web'.resp.status >= 400) =>
             (web'.reg = <<>> /\ jobs' = jobs)
       /\ (web.pc = "done" /\ web.resp.status >= 400) => web.reg = <<>>]_vars

\* a request whose store sync went through and whose send to an administrative phone failed
\* has ended in an error, with jobs of an earlier request pending
C21_Witness ==
    /\ web.pc = "done"
    /\ web.resp = Unhandled
    /\ SendFailed(web)
    /\ \E n \in 1..Len(web.out.notion) : web.out.notion[n].op = "update"
    /\ web.reg = <<>>
    /\ BagCardinality(jobs) = 3

\* C22: each pending job's fire time is determined by its id: with meeting time t and label L
\* in the id, the run date is t - 24h for the one-day label (1day or 1d), t - 4h for 4h and
\* t + 1h for after, whichever entry point registered or replaced the job.
C22_FireTimeFromId ==
    \A job \in BagToSet(jobs) :
        LET t == job.id[2]
            L == job.id[3]
        IN  /\ L \in {"1day", "1d", "4h", "after"}
            /\ job.run_date = CASE L \in {"1day", "1d"} -> t - 24
                                [] L = "4h" -> t - 4
                                [] L = "after" -> t + 1

\* jobs of the webhook, of /test/schedule-messages and of both lead endpoints are pending
C22_Witness ==
    /\ \E job \in BagToSet(jobs) : job.id[1] = "whatsapp" /\ owner[job.id] # NoUid
    /\ \E job \in BagToSet(jobs) : job.id[1] = "whatsapp" /\ owner[job.id] = NoUid
    /\ \E job \in BagToSet(jobs) : job.id[1] = "lead_whatsapp" /\ job.id[3] = "1d"
    /\ \E job \in BagToSet(jobs) : job.id[1] = "lead_whatsapp" /\ job.id[3] = "1day"

====
